---- MODULE Spec2Model ----
(***************************************************************************)
(* Costureira Pro: the database-resident core (find-or-create functions,   *)
(* client statistics trigger, piece counter trigger) and the client-side   *)
(* write path of src/hooks/useSupabase.ts that drives it.                  *)
(*                                                                         *)
(* The specifications share the database variables:                        *)
(*   Spec, SpecPieces  statements run to completion one after another      *)
(*   SpecApp     two browser sessions run createService and                *)
(*               addPiecesToCounter, one request (= one transaction) per   *)
(*               step                                                      *)
(*   SpecFav     SpecApp and updateClientFavorite                          *)
(*   SpecForm    handleSubmit of ServiceForm and of CounterScreen          *)
(*   SpecRls     statements of signed-in accounts on clients and services, *)
(*               under the row level security policies                     *)
(*   SpecLedger  the same on piece counters and their history              *)
(*   SpecTx      two READ COMMITTED transactions on the rows of one client *)
(*   SpecAtomic  SpecTx with transactions that end without COMMIT          *)
(*   SpecMove    updates of the services of one client of two              *)
(*   SpecSort    the frequent-client lists of ClientChips and QuickActions *)
(*   SpecHooks   App, useSupabase and the data hooks; SpecHooksLive adds   *)
(*               that every request settles                                *)
(***************************************************************************)
EXTENDS Integers, Sequences, FiniteSets, TLC

VARIABLES
    clients,               \* public.clients, in heap (scan) order
    services,              \* public.services
    piece_counters,        \* piece_counters, in heap (scan) order
    piece_counter_history, \* piece_counter_history
    session,               \* SpecApp: the call each browser session is running
    txn,                   \* SpecTx: the open transaction of each connection
    overlapped,            \* SpecTx: some transaction began while another was open
    ui,                    \* SpecForm: the state of ServiceForm and CounterScreen
    hooks                  \* SpecHooks: the state of useSupabase and the data hooks

vars == <<clients, services, piece_counters, piece_counter_history,
          session, txn, overlapped, ui, hooks>>

dbVars == <<clients, services, piece_counters, piece_counter_history>>

----------------------------------------------------------------------------
(* Bounds of the model *)

MaxClients  == 2
MaxServices == 1
MaxCounters == 2
MaxHistory  == 2
MaxTime     == 2
MaxCalls    == 2
MaxTxns     == 2
MaxInFlight == 2

(* Value domains *)

Accounts == {"u1", "u2"}

\* client names as character sequences, so that LOWER() has something to do
Names == { <<"a", "n">>, <<"A", "n">>, <<"b", "i">> }

Values   == {1, 2}
Deltas   == {-2, 1}
Times    == 0..MaxTime
Statuses == {"progress", "delivered", "paid"}

\* SQL NULL (clients.last_service_date before any service, NEW in a DELETE trigger)
NULL == -999999

\* created_at is a timestamp; created_at::date truncates it to its day
TicksPerDay == 2

\* DECIMAL(10,2): absolute values must stay below 10^(10-2)
DecimalLimit == 100000000

\* INTEGER (int4) range of total_pieces and pieces_added
IntMax == 2147483647

----------------------------------------------------------------------------
(* Pure helpers *)

Ids(s) == { s[i].id : i \in 1..Len(s) }

\* LOWER() on one character of the model alphabet
LowerChar(ch) ==
    CASE ch = "A" -> "a"
      [] ch = "B" -> "b"
      [] ch = "I" -> "i"
      [] ch = "N" -> "n"
      [] OTHER    -> ch

\* LOWER(text)
Lower(name) == [ i \in 1..Len(name) |-> LowerChar(name[i]) ]

\* created_at::date
ToDate(ts) == ts \div TicksPerDay

RECURSIVE SumValue(_)
SumValue(S) ==
    IF S = {} THEN 0
    ELSE LET r == CHOOSE x \in S : TRUE
         IN  r.value + SumValue(S \ {r})

RECURSIVE SumPieces(_)
SumPieces(S) ==
    IF S = {} THEN 0
    ELSE LET r == CHOOSE x \in S : TRUE
         IN  r.pieces_added + SumPieces(S \ {r})

\* MAX() over a set of dates: NULL on the empty set
MaxOf(S) == IF S = {} THEN NULL ELSE CHOOSE d \in S : \A e \in S : e <= d

\* COALESCE(a, b)
Coalesce(a, b) == IF a # NULL THEN a ELSE b

DecimalFits(x) == x > -DecimalLimit /\ x < DecimalLimit

IntFits(x) == x >= -IntMax - 1 /\ x <= IntMax

\* gen_random_uuid(): an identifier no row of the table carries
FreshId(used) == CHOOSE i \in 1..(Cardinality(used) + 1) : i \notin used

\* position of the row with identifier id in a table (0 when absent)
IndexOf(tbl, id) ==
    IF id \in Ids(tbl) THEN CHOOSE i \in 1..Len(tbl) : tbl[i].id = id ELSE 0

RowOf(tbl, id) == tbl[IndexOf(tbl, id)]

\* UPDATE of the row with identifier id
ReplaceRow(tbl, id, row) == [tbl EXCEPT ![IndexOf(tbl, id)] = row]

\* INSERT: the new tuple takes a free slot of the heap, so it may come anywhere
\* in the order in which a scan without ORDER BY returns the rows
InsertAt(tbl, row, pos) ==
    SubSeq(tbl, 1, pos - 1) \o <<row>> \o SubSeq(tbl, pos, Len(tbl))

Slots(tbl) == 1..(Len(tbl) + 1)

----------------------------------------------------------------------------
(* public.update_client_stats(): the two sub-selects and the UPDATE *)

\* SELECT COALESCE(SUM(value), 0) FROM services WHERE client_id = c AND status = 'paid'
PaidSum(svcs, c) ==
    SumValue({ s \in svcs : s.client_id = c /\ s.status = "paid" })

\* SELECT MAX(created_at::date) FROM services WHERE client_id = c
LastDate(svcs, c) ==
    MaxOf({ ToDate(s.created_at) : s \in { x \in svcs : x.client_id = c } })

\* the client the trigger recomputes: COALESCE(NEW.client_id, OLD.client_id)
StatsTarget(newClient, oldClient) == Coalesce(newClient, oldClient)

\* a variant in which the parent row is left as it was
WriteClientStatsSkipped(cl, c, total, last) == cl

\* UPDATE public.clients SET total_spent = .., last_service_date = .. WHERE id = c
WriteClientStats(cl, c, total, last) ==
    IF c \notin Ids(cl) THEN cl
    ELSE ReplaceRow(cl, c,
             [RowOf(cl, c) EXCEPT !.total_spent = total, !.last_service_date = last])

update_client_stats(cl, svcs, newClient, oldClient) ==
    LET c == StatsTarget(newClient, oldClient)
    IN  WriteClientStats(cl, c, PaidSum(svcs, c), LastDate(svcs, c))

----------------------------------------------------------------------------
(* public.get_or_create_client(p_user_id, p_client_name) *)

\* a variant that lower-cases the stored name only
ClientMatchesRawParam(cl, u, n) ==
    { i \in 1..Len(cl) : cl[i].user_id = u /\ Lower(cl[i].name) = n }

\* a variant that compares the names as they are
ClientMatchesExact(cl, u, n) ==
    { i \in 1..Len(cl) : cl[i].user_id = u /\ cl[i].name = n }

\* a variant that matches the name in every account
ClientMatchesAnyAccount(cl, u, n) ==
    { i \in 1..Len(cl) : Lower(cl[i].name) = Lower(n) }

\* rows matching WHERE user_id = p_user_id AND LOWER(name) = LOWER(p_client_name)
ClientMatches(cl, u, n) ==
    { i \in 1..Len(cl) : cl[i].user_id = u /\ Lower(cl[i].name) = Lower(n) }

\* SELECT id INTO client_id ... LIMIT 1: the first matching row of the scan,
\* NULL when there is none
FindClient(cl, u, n) ==
    LET m == ClientMatches(cl, u, n)
    IN  IF m = {} THEN NULL
        ELSE cl[CHOOSE i \in m : \A j \in m : i <= j].id

\* INSERT INTO public.clients (user_id, name): the other columns take their defaults
NewClient(id, u, n) ==
    [id |-> id, user_id |-> u, name |-> n, is_favorite |-> FALSE,
     total_spent |-> 0, last_service_date |-> NULL]

InsertClient(cl, u, n, pos) == InsertAt(cl, NewClient(FreshId(Ids(cl)), u, n), pos)

\* the whole function, run to completion: the table afterwards and RETURN client_id
get_or_create_client(cl, u, n, pos) ==
    LET found == FindClient(cl, u, n)
    IN  IF found = NULL
        THEN [clients |-> InsertClient(cl, u, n, pos), id |-> FreshId(Ids(cl))]
        ELSE [clients |-> cl, id |-> found]

----------------------------------------------------------------------------
(* get_or_create_piece_counter(p_user_id, p_client_id, p_client_name) *)

CounterMatches(pc, u, c) ==
    { i \in 1..Len(pc) : pc[i].user_id = u /\ pc[i].client_id = c }

\* SELECT id INTO counter_id: the first row the scan returns, NULL when none
FindCounter(pc, u, c) ==
    LET m == CounterMatches(pc, u, c)
    IN  IF m = {} THEN NULL
        ELSE pc[CHOOSE i \in m : \A j \in m : i <= j].id

NewCounter(id, u, c) ==
    [id |-> id, user_id |-> u, client_id |-> c, total_pieces |-> 0]

InsertCounter(pc, u, c, pos) == InsertAt(pc, NewCounter(FreshId(Ids(pc)), u, c), pos)

get_or_create_piece_counter(pc, u, c, pos) ==
    LET found == FindCounter(pc, u, c)
    IN  IF found = NULL
        THEN [piece_counters |-> InsertCounter(pc, u, c, pos), id |-> FreshId(Ids(pc))]
        ELSE [piece_counters |-> pc, id |-> found]

----------------------------------------------------------------------------
(* update_piece_counter_total(): total_pieces = total_pieces + NEW.pieces_added *)

\* a variant that floors the total at zero
AddPiecesFloored(total, delta) == IF total + delta < 0 THEN 0 ELSE total + delta

AddPieces(total, delta) == total + delta

update_piece_counter_total(pc, k, delta) ==
    IF k \notin Ids(pc) THEN pc
    ELSE ReplaceRow(pc, k, [RowOf(pc, k) EXCEPT !.total_pieces = AddPieces(@, delta)])

----------------------------------------------------------------------------
(* Rows of the two ledgers *)

NewService(id, u, c, v, st, ts) ==
    [id |-> id, user_id |-> u, client_id |-> c, value |-> v, status |-> st,
     created_at |-> ts]

NewHistory(id, u, k, d) ==
    [id |-> id, user_id |-> u, counter_id |-> k, pieces_added |-> d]

ServiceIds == { s.id : s \in services }

HistoryIds == { h.id : h \in piece_counter_history }

\* a status of SQL NULL: the column is nullable, and a CHECK whose condition
\* evaluates to NULL is satisfied
NullStatus == "null"

\* CHECK (status IN ('progress', 'delivered', 'paid'))
StatusCheck(st) == st = NullStatus \/ st \in Statuses

\* the column constraints of public.services: client_id REFERENCES clients,
\* value DECIMAL(10,2) NOT NULL, the CHECK on status
ServiceAccepted(cl, c, v, st) ==
    /\ c \in Ids(cl)
    /\ StatusCheck(st)
    /\ v # NULL
    /\ DecimalFits(v)

\* the constraints of piece_counter_history: counter_id references a counter,
\* pieces_added INTEGER NOT NULL
HistoryAccepted(pc, k, d) ==
    /\ k \in Ids(pc)
    /\ d # NULL
    /\ IntFits(d)

----------------------------------------------------------------------------
(* Statements of an authenticated account u (auth.uid() = u), each run to   *)
(* completion before the next starts                                        *)

\* supabase.auth.getUser() without a signed-in user: user is null
NoUser == "nobody"

IdleSession ==
    [pc |-> "idle", op |-> "none", user |-> NoUser, name |-> << >>,
     client_id |-> NULL, counter_id |-> NULL, made |-> {}, calls |-> 0]

\* no row: NEW of a DELETE trigger, OLD of an INSERT trigger
NoRow ==
    [id |-> NULL, user_id |-> NoUser, client_id |-> NULL, value |-> NULL,
     status |-> "none", created_at |-> NULL]

IdleTxn ==
    [pc |-> "idle", kind |-> "none", op |-> "none", new |-> NoRow, old |-> NoRow,
     seen |-> 0, total |-> 0, last |-> NULL, n |-> 0]

Sessions == {"s1", "s2"}

\* the two forms that submit to the write path
Forms == {"ServiceForm", "CounterScreen"}

\* an input left empty: useState('')
Blank == -888888

\* useState of the form when it mounts: empty fields, isAdding true, loading
\* false; route is the screen shown, alert the last message of handleSubmit,
\* refetched whether handleSubmit has asked for the lists again
InitialForm(f) ==
    [client |-> << >>, description |-> "", amount |-> Blank, isAdding |-> TRUE,
     loading |-> FALSE, alert |-> "none", route |-> f, refetched |-> FALSE,
     inflight |-> 0]

\* a form that is not on screen: the application shows '/'
Closed(f) == [InitialForm(f) EXCEPT !.route = "/"]

\* the hooks that fetch a list
DataHooks == {"useClients", "useServices", "usePieceCounters", "usePieceCounterHistory"}

\* a data hook of a component that is not rendered; of a mounted hook: the
\* loading flag, the list (NULL for the initial [], else the query whose rows
\* it holds), the argument counterId (0 for undefined), the queries of the
\* fetches in flight, and whether an error was logged
Unmounted ==
    [mounted |-> FALSE, loading |-> TRUE, list |-> NULL, counterId |-> 0,
     pending |-> {}, errored |-> FALSE]

\* App when it mounts: useState(null), useState(true), getSession() called;
\* session is the session the auth client holds, screen what App renders
InitialHooks ==
    [session |-> NoUser, getSession |-> "pending", user |-> NoUser,
     loading |-> TRUE, screen |-> "loading", data |-> [h \in DataHooks |-> Unmounted],
     chips |-> << >>, quick |-> << >>]

Conns == {"t1", "t2"}

Init ==
    /\ clients = << >>
    /\ services = {}
    /\ piece_counters = << >>
    /\ piece_counter_history = {}
    /\ session = [p \in Sessions |-> IdleSession]
    /\ txn = [t \in Conns |-> IdleTxn]
    /\ overlapped = FALSE
    /\ ui = [f \in Forms |-> Closed(f)]
    /\ hooks = InitialHooks

\* SELECT get_or_create_client(u, n)
GetOrCreateClient(u, n, pos) ==
    /\ FindClient(clients, u, n) = NULL => Len(clients) < MaxClients
    /\ FindClient(clients, u, n) # NULL => pos = 1
    /\ clients' = get_or_create_client(clients, u, n, pos).clients
    /\ UNCHANGED <<services, piece_counters, piece_counter_history,
                   session, txn, overlapped, ui, hooks>>

\* SELECT get_or_create_piece_counter(u, c, ..)
GetOrCreatePieceCounter(u, c, pos) ==
    /\ c \in Ids(clients)
    /\ FindCounter(piece_counters, u, c) = NULL => Len(piece_counters) < MaxCounters
    /\ FindCounter(piece_counters, u, c) # NULL => pos = 1
    /\ piece_counters' =
           get_or_create_piece_counter(piece_counters, u, c, pos).piece_counters
    /\ UNCHANGED <<clients, services, piece_counter_history, session, txn, overlapped, ui, hooks>>

\* INSERT INTO services ..., then the AFTER INSERT row trigger
InsertService(u, c, v, st, ts) ==
    /\ Cardinality(services) < MaxServices
    /\ ServiceAccepted(clients, c, v, st)
    /\ LET row  == NewService(FreshId(ServiceIds), u, c, v, st, ts)
           svcs == services \cup {row}
       IN  /\ DecimalFits(PaidSum(svcs, StatsTarget(row.client_id, NULL)))
           /\ services' = svcs
           /\ clients' = update_client_stats(clients, svcs, row.client_id, NULL)
    /\ UNCHANGED <<piece_counters, piece_counter_history, session, txn, overlapped, ui, hooks>>

\* UPDATE services SET client_id, value, status, created_at WHERE id = old.id,
\* then the AFTER UPDATE row trigger
UpdateService(u, old, c, v, st, ts) ==
    /\ old \in services
    /\ old.user_id = u
    /\ ServiceAccepted(clients, c, v, st)
    /\ LET row  == [old EXCEPT !.client_id = c, !.value = v, !.status = st,
                               !.created_at = ts]
           svcs == (services \ {old}) \cup {row}
       IN  /\ DecimalFits(PaidSum(svcs, StatsTarget(row.client_id, old.client_id)))
           /\ services' = svcs
           /\ clients' = update_client_stats(clients, svcs, row.client_id,
                                             old.client_id)
    /\ UNCHANGED <<piece_counters, piece_counter_history, session, txn, overlapped, ui, hooks>>

\* DELETE FROM services WHERE id = old.id, then the AFTER DELETE row trigger
DeleteService(u, old) ==
    /\ old \in services
    /\ old.user_id = u
    /\ LET svcs == services \ {old}
       IN  /\ services' = svcs
           /\ clients' = update_client_stats(clients, svcs, NULL, old.client_id)
    /\ UNCHANGED <<piece_counters, piece_counter_history, session, txn, overlapped, ui, hooks>>

\* INSERT INTO piece_counter_history ..., then the AFTER INSERT row trigger
InsertHistory(u, k, d) ==
    /\ Cardinality(piece_counter_history) < MaxHistory
    /\ HistoryAccepted(piece_counters, k, d)
    /\ IntFits(AddPieces(RowOf(piece_counters, k).total_pieces, d))
    /\ piece_counter_history' =
           piece_counter_history \cup {NewHistory(FreshId(HistoryIds), u, k, d)}
    /\ piece_counters' = update_piece_counter_total(piece_counters, k, d)
    /\ UNCHANGED <<clients, services, session, txn, overlapped, ui, hooks>>

\* Spec: the clients and the services ledger
Next ==
    \/ \E u \in Accounts, n \in Names, pos \in Slots(clients) :
           GetOrCreateClient(u, n, pos)
    \/ \E u \in Accounts, c \in Ids(clients), v \in Values, st \in Statuses,
          ts \in Times :
           InsertService(u, c, v, st, ts)
    \/ \E u \in Accounts, old \in services, c \in Ids(clients), v \in Values,
          st \in Statuses, ts \in Times :
           UpdateService(u, old, c, v, st, ts)
    \/ \E u \in Accounts, old \in services : DeleteService(u, old)

Spec == Init /\ [][Next]_vars

\* SpecPieces: the clients, their piece counters and the history ledger
NextPieces ==
    \/ \E u \in Accounts, n \in Names, pos \in Slots(clients) :
           GetOrCreateClient(u, n, pos)
    \/ \E u \in Accounts, c \in Ids(clients), pos \in Slots(piece_counters) :
           GetOrCreatePieceCounter(u, c, pos)
    \/ \E u \in Accounts, k \in Ids(piece_counters), d \in Deltas :
           InsertHistory(u, k, d)

SpecPieces == Init /\ [][NextPieces]_vars

\* SpecMove: updates and deletes on two services that were inserted for the
\* first of two clients of one account
MoveStatuses == {"progress", "paid"}

InitMove ==
    /\ \E v1 \in Values, v2 \in Values, st1 \in MoveStatuses, st2 \in MoveStatuses,
          ts1 \in Times, ts2 \in Times :
           /\ services = { NewService(1, "u1", 1, v1, st1, ts1),
                           NewService(2, "u1", 1, v2, st2, ts2) }
           /\ clients = update_client_stats(
                   << NewClient(1, "u1", <<"a", "n">>), NewClient(2, "u1", <<"b", "i">>) >>,
                   services, 1, NULL)
    /\ piece_counters = << >>
    /\ piece_counter_history = {}
    /\ session = [p \in Sessions |-> IdleSession]
    /\ txn = [t \in Conns |-> IdleTxn]
    /\ overlapped = FALSE
    /\ ui = [f \in Forms |-> Closed(f)]
    /\ hooks = InitialHooks

\* UPDATE services SET description = .. WHERE id = old.id: no column of the
\* model changes, and the AFTER UPDATE row trigger runs
UpdateServiceDescription(u, old) ==
    UpdateService(u, old, old.client_id, old.value, old.status, old.created_at)

NextMove ==
    \/ \E u \in Accounts, old \in services, c \in Ids(clients), v \in Values,
          st \in MoveStatuses, ts \in Times :
           UpdateService(u, old, c, v, st, ts)
    \/ \E u \in Accounts, old \in services : UpdateServiceDescription(u, old)
    \/ \E u \in Accounts, old \in services : DeleteService(u, old)

SpecMove == InitMove /\ [][NextMove]_vars

----------------------------------------------------------------------------
(* SpecApp: createService and addPiecesToCounter of useSupabase.ts, run by   *)
(* two browser sessions. Every await is one request; the requests of the two *)
(* sessions interleave, and inside get_or_create_* the SELECT and the INSERT *)
(* are two statements of a READ COMMITTED transaction.                       *)

\* what the forms can submit: parseFloat(value), status, +-parseInt(pieces)
\* (a value of 10^8 does not fit DECIMAL(10,2))
FormValues == {2, DecimalLimit}

FormStatuses == {"progress", "paid"}

\* parseInt of a non-numeric entry is NaN, which JSON carries as null
NaN == NULL

FormPieces == {-2, 1, NaN}

RequestPcs ==
    {"rpc_client", "rpc_client_insert", "rpc_counter", "rpc_counter_insert",
     "insert_service", "insert_history"}

\* a variant that goes from the client straight to the history insert
AfterClientSkipsCounter(op) ==
    IF op = "createService" THEN "insert_service" ELSE "insert_history"

\* the step that follows a returned get_or_create_client
AfterClient(op) == IF op = "createService" THEN "insert_service" ELSE "rpc_counter"

Throw(s) == [s EXCEPT !.pc = "failed"]

\* calls made so far by all sessions
RECURSIVE CallsOf(_)
CallsOf(S) ==
    IF S = {} THEN 0
    ELSE LET p == CHOOSE x \in S : TRUE
         IN  session[p].calls + CallsOf(S \ {p})

\* supabase.auth.getUser(); if (!user) throw
Call(p, op, auth, n) ==
    /\ session[p].pc = "idle"
    /\ CallsOf(Sessions) < MaxCalls
    /\ session' = [session EXCEPT ![p] =
           IF auth = NoUser
           THEN [@ EXCEPT !.pc = "failed", !.op = op, !.calls = @ + 1]
           ELSE [@ EXCEPT !.pc = "rpc_client", !.op = op, !.user = auth,
                          !.name = n, !.calls = @ + 1]]
    /\ UNCHANGED <<dbVars, txn, overlapped, ui, hooks>>

CallCreateService(p, auth, n) == Call(p, "createService", auth, n)

CallAddPiecesToCounter(p, auth, n) == Call(p, "addPiecesToCounter", auth, n)

\* rpc('get_or_create_client'): SELECT id INTO client_id ... LIMIT 1
ClientLookup(p) ==
    /\ session[p].pc = "rpc_client"
    /\ LET s     == session[p]
           found == FindClient(clients, s.user, s.name)
       IN  session' = [session EXCEPT ![p] =
               IF found = NULL
               THEN [s EXCEPT !.pc = "rpc_client_insert"]
               ELSE [s EXCEPT !.pc = AfterClient(s.op), !.client_id = found]]
    /\ UNCHANGED <<dbVars, txn, overlapped, ui, hooks>>

\* rpc('get_or_create_client'): IF client_id IS NULL THEN INSERT ...; RETURN
ClientInsert(p, pos) ==
    /\ session[p].pc = "rpc_client_insert"
    /\ LET s  == session[p]
           id == FreshId(Ids(clients))
       IN  /\ clients' = InsertClient(clients, s.user, s.name, pos)
           /\ session' = [session EXCEPT ![p] =
                  [s EXCEPT !.pc = AfterClient(s.op), !.client_id = id,
                            !.made = @ \cup {<<"clients", id>>}]]
    /\ UNCHANGED <<services, piece_counters, piece_counter_history, txn, overlapped, ui, hooks>>

\* rpc('get_or_create_piece_counter'): SELECT id INTO counter_id
CounterLookup(p) ==
    /\ session[p].pc = "rpc_counter"
    /\ LET s     == session[p]
           found == FindCounter(piece_counters, s.user, s.client_id)
       IN  session' = [session EXCEPT ![p] =
               IF found = NULL
               THEN [s EXCEPT !.pc = "rpc_counter_insert"]
               ELSE [s EXCEPT !.pc = "insert_history", !.counter_id = found]]
    /\ UNCHANGED <<dbVars, txn, overlapped, ui, hooks>>

\* rpc('get_or_create_piece_counter'): IF counter_id IS NULL THEN INSERT ...; RETURN
CounterInsert(p, pos) ==
    /\ session[p].pc = "rpc_counter_insert"
    /\ LET s  == session[p]
           id == FreshId(Ids(piece_counters))
       IN  /\ piece_counters' = InsertCounter(piece_counters, s.user, s.client_id, pos)
           /\ session' = [session EXCEPT ![p] =
                  [s EXCEPT !.pc = "insert_history", !.counter_id = id,
                            !.made = @ \cup {<<"piece_counters", id>>}]]
    /\ UNCHANGED <<clients, services, piece_counter_history, txn, overlapped, ui, hooks>>

\* from('services').insert({...}).select().single(); if (error) throw error
ServiceInsert(p, v, st, ts) ==
    /\ session[p].pc = "insert_service"
    /\ LET s    == session[p]
           row  == NewService(FreshId(ServiceIds), s.user, s.client_id, v, st, ts)
           svcs == services \cup {row}
       IN  IF /\ ServiceAccepted(clients, row.client_id, v, st)
              /\ DecimalFits(PaidSum(svcs, StatsTarget(row.client_id, NULL)))
           THEN /\ services' = svcs
                /\ clients' = update_client_stats(clients, svcs, row.client_id, NULL)
                /\ session' = [session EXCEPT ![p] =
                       [s EXCEPT !.pc = "done", !.made = @ \cup {<<"services", row.id>>}]]
           ELSE /\ session' = [session EXCEPT ![p] = Throw(s)]
                /\ UNCHANGED <<clients, services>>
    /\ UNCHANGED <<piece_counters, piece_counter_history, txn, overlapped, ui, hooks>>

\* from('piece_counter_history').insert({...}).select().single();
\* if (historyError) throw historyError
HistoryInsert(p, d) ==
    /\ session[p].pc = "insert_history"
    /\ LET s   == session[p]
           row == NewHistory(FreshId(HistoryIds), s.user, s.counter_id, d)
       IN  IF /\ HistoryAccepted(piece_counters, row.counter_id, d)
              /\ IntFits(AddPieces(RowOf(piece_counters, row.counter_id).total_pieces, d))
           THEN /\ piece_counter_history' = piece_counter_history \cup {row}
                /\ piece_counters' =
                       update_piece_counter_total(piece_counters, row.counter_id, d)
                /\ session' = [session EXCEPT ![p] =
                       [s EXCEPT !.pc = "done",
                                 !.made = @ \cup {<<"piece_counter_history", row.id>>}]]
           ELSE /\ session' = [session EXCEPT ![p] = Throw(s)]
                /\ UNCHANGED <<piece_counters, piece_counter_history>>
    /\ UNCHANGED <<clients, services, txn, overlapped, ui, hooks>>

\* a request that comes back with an error (network, server): its transaction
\* has no effect, and the caller throws
RequestFails(p) ==
    /\ session[p].pc \in RequestPcs
    /\ session' = [session EXCEPT ![p] = Throw(@)]
    /\ UNCHANGED <<dbVars, txn, overlapped, ui, hooks>>

\* the promise settles and the form is ready for another submit
Return(p) ==
    /\ session[p].pc \in {"done", "failed"}
    /\ CallsOf(Sessions) < MaxCalls
    /\ session' = [session EXCEPT ![p] = [IdleSession EXCEPT !.calls = session[p].calls]]
    /\ UNCHANGED <<dbVars, txn, overlapped, ui, hooks>>

NextApp ==
    \/ \E p \in Sessions, auth \in Accounts \cup {NoUser}, n \in Names :
           CallCreateService(p, auth, n)
    \/ \E p \in Sessions, auth \in Accounts \cup {NoUser}, n \in Names :
           CallAddPiecesToCounter(p, auth, n)
    \/ \E p \in Sessions : ClientLookup(p)
    \/ \E p \in Sessions, pos \in Slots(clients) : ClientInsert(p, pos)
    \/ \E p \in Sessions : CounterLookup(p)
    \/ \E p \in Sessions, pos \in Slots(piece_counters) : CounterInsert(p, pos)
    \/ \E p \in Sessions, v \in FormValues, st \in FormStatuses, ts \in Times :
           ServiceInsert(p, v, st, ts)
    \/ \E p \in Sessions, d \in FormPieces : HistoryInsert(p, d)
    \/ \E p \in Sessions : RequestFails(p)
    \/ \E p \in Sessions : Return(p)

SpecApp == Init /\ [][NextApp]_vars

----------------------------------------------------------------------------
(* SpecFav: SpecApp and updateClientFavorite, the third mutating operation   *)
(* of useSupabase.ts. It is one request, and it never asks for the user.     *)

\* the policy "Users can update own clients": USING (auth.uid() = user_id);
\* auth.uid() of a request without a signed-in user is null and equals nothing
ClientUpdatePolicy(auth, c) == auth # NoUser /\ auth = c.user_id

\* a variant of the column list that also clears the aggregates
SetFavoriteAndStats(c, isFavorite) ==
    [c EXCEPT !.is_favorite = isFavorite, !.total_spent = 0,
              !.last_service_date = NULL]

\* .update({ is_favorite: isFavorite })
SetFavorite(c, isFavorite) == [c EXCEPT !.is_favorite = isFavorite]

\* UPDATE clients SET is_favorite = .. WHERE id = clientId, on the rows the
\* policy lets the request see
FavoriteUpdate(cl, auth, clientId, isFavorite) ==
    [ i \in 1..Len(cl) |->
        IF cl[i].id = clientId /\ ClientUpdatePolicy(auth, cl[i])
        THEN SetFavorite(cl[i], isFavorite)
        ELSE cl[i] ]

\* updateClientFavorite(clientId, isFavorite): the request either comes back
\* with an error, which is thrown, or it has run the UPDATE, on zero rows or
\* on one, and the function returns
UpdateClientFavorite(p, auth, clientId, isFavorite, error) ==
    /\ session[p].pc = "idle"
    /\ CallsOf(Sessions) < MaxCalls
    /\ clients' = IF error THEN clients
                  ELSE FavoriteUpdate(clients, auth, clientId, isFavorite)
    /\ session' = [session EXCEPT ![p] =
           [@ EXCEPT !.pc = IF error THEN "failed" ELSE "done",
                     !.op = "updateClientFavorite", !.user = auth,
                     !.client_id = clientId, !.calls = @ + 1]]
    /\ UNCHANGED <<services, piece_counters, piece_counter_history, txn, overlapped, ui, hooks>>

NextFav ==
    \/ NextApp
    \/ \E p \in Sessions, auth \in Accounts \cup {NoUser},
          clientId \in 1..MaxClients, isFavorite \in BOOLEAN, error \in BOOLEAN :
           UpdateClientFavorite(p, auth, clientId, isFavorite, error)

SpecFav == Init /\ [][NextFav]_vars

----------------------------------------------------------------------------
(* SpecForm: handleSubmit of ServiceForm (createService, session s1) and of  *)
(* CounterScreen (addPiecesToCounter, session s2) in one browser tab, which   *)
(* shows one screen at a time. The fields are edited and the screen is left  *)
(* while no submit is running.                                               *)

SessionOf(f) == IF f = "ServiceForm" THEN "s1" ELSE "s2"

OpOf(f) == IF f = "ServiceForm" THEN "createService" ELSE "addPiecesToCounter"

\* what can be typed: a client name or nothing; a value (parseFloat'ed) or
\* nothing; a number of pieces, something parseInt cannot read, or nothing
FormNames == { << >>, <<"a", "n">> }

FormAmounts(f) ==
    IF f = "ServiceForm" THEN {Blank} \cup FormValues ELSE {Blank, NaN, 1, 2}

\* the descriptions that can be typed; the one of CounterScreen is optional
\* and left empty
FormDescriptions(f) == IF f = "ServiceForm" THEN {"", "x"} ELSE {""}

\* piecesAmount without the sign of the mode
PiecesAmountUnsigned(u) == u.amount

\* const piecesAmount = isAdding ? parseInt(pieces) : -parseInt(pieces)
PiecesAmount(u) ==
    IF u.amount = NaN THEN NaN
    ELSE IF u.isAdding THEN u.amount ELSE -u.amount

\* the fields handleSubmit requires: client, description and value in
\* ServiceForm, selectedClient and pieces in CounterScreen
Required(f, u) ==
    /\ u.client # << >>
    /\ f = "ServiceForm" => u.description # ""
    /\ u.amount # Blank

\* a submit button that is never disabled
SubmitNeverDisabled(u) == FALSE

\* <button type="submit" disabled={loading}>
SubmitDisabled(u) == u.loading

\* a variant of the finally block that leaves the flag as it is
FinallyKeepsLoading(u) == u

\* finally { setLoading(false) }
Finally(u) == [u EXCEPT !.loading = FALSE]

\* catch (error) { console.error(..); alert('Erro ao ...') }
Catch(u) == [u EXCEPT !.alert = "error"]

\* after the await: ServiceForm navigates to '/', CounterScreen resets its
\* three fields and refetches counters and history
Succeeded(f, u) ==
    IF f = "ServiceForm"
    THEN [u EXCEPT !.route = "/"]
    ELSE [u EXCEPT !.client = << >>, !.amount = Blank, !.description = "",
                   !.refetched = TRUE]

\* onChange of the inputs and the add / remove toggle
Edit(f, n, d, a, adding) ==
    /\ ui[f].route = f
    /\ ~ui[f].loading
    /\ ui' = [ui EXCEPT ![f] = [@ EXCEPT !.client = n, !.description = d,
                                         !.amount = a, !.isAdding = adding]]
    /\ UNCHANGED <<dbVars, session, txn, overlapped, hooks>>

\* the submit event and handleSubmit up to the await: the required fields,
\* then setLoading(true) and the call; inflight counts the calls awaited
Submit(f) ==
    /\ ui[f].route = f
    /\ ~SubmitDisabled(ui[f])
    /\ ui[f].inflight < MaxInFlight
    /\ ui' = [ui EXCEPT ![f] =
           IF ~Required(f, @)
           THEN [@ EXCEPT !.alert = "required", !.refetched = FALSE]
           ELSE [@ EXCEPT !.alert = "none", !.refetched = FALSE, !.loading = TRUE,
                          !.inflight = @ + 1]]
    /\ UNCHANGED <<dbVars, session, txn, overlapped, hooks>>

\* await createService({ client_name: formData.client, .. }) and
\* await addPiecesToCounter({ client_name: selectedClient, .. })
FormCall(f, auth) ==
    /\ ui[f].loading
    /\ Call(SessionOf(f), OpOf(f), auth, ui[f].client)

\* value: parseFloat(formData.value)
FormServiceInsert(v, st, ts) ==
    /\ v = ui["ServiceForm"].amount
    /\ ServiceInsert(SessionOf("ServiceForm"), v, st, ts)

\* pieces_added: piecesAmount
FormHistoryInsert(d) ==
    /\ d = PiecesAmount(ui["CounterScreen"])
    /\ HistoryInsert(SessionOf("CounterScreen"), d)

\* the await settles: the statements after it or the catch block, then the
\* finally block
Settle(f) ==
    /\ ui[f].loading
    /\ session[SessionOf(f)].pc \in {"done", "failed"}
    /\ ui' = [ui EXCEPT ![f] =
           [IF session[SessionOf(f)].pc = "done"
            THEN Finally(Succeeded(f, @))
            ELSE Finally(Catch(@))
              EXCEPT !.inflight = @ - 1]]
    /\ session' = [session EXCEPT ![SessionOf(f)] =
           [IdleSession EXCEPT !.calls = session[SessionOf(f)].calls]]
    /\ UNCHANGED <<dbVars, txn, overlapped, hooks>>

\* the route of the form is opened from '/': the component mounts
Reopen(f) ==
    /\ \A g \in Forms : ui[g].route = "/"
    /\ ui' = [ui EXCEPT ![f] = InitialForm(f)]
    /\ UNCHANGED <<dbVars, session, txn, overlapped, hooks>>

\* the back button: navigate('/'), the component unmounts
Leave(f) ==
    /\ ui[f].route = f
    /\ ~ui[f].loading
    /\ ui' = [ui EXCEPT ![f] = Closed(f)]
    /\ UNCHANGED <<dbVars, session, txn, overlapped, hooks>>

NextForm ==
    \/ \E f \in Forms : \E n \in FormNames, d \in FormDescriptions(f),
                          a \in FormAmounts(f), adding \in BOOLEAN :
           Edit(f, n, d, a, adding)
    \/ \E f \in Forms : Submit(f)
    \/ \E f \in Forms, auth \in Accounts \cup {NoUser} : FormCall(f, auth)
    \/ \E p \in Sessions : ClientLookup(p)
    \/ \E p \in Sessions, pos \in Slots(clients) : ClientInsert(p, pos)
    \/ \E p \in Sessions : CounterLookup(p)
    \/ \E p \in Sessions, pos \in Slots(piece_counters) : CounterInsert(p, pos)
    \/ \E v \in FormValues, st \in FormStatuses, ts \in Times :
           FormServiceInsert(v, st, ts)
    \/ \E d \in {NaN, -2, -1, 1, 2} : FormHistoryInsert(d)
    \/ \E p \in Sessions : RequestFails(p)
    \/ \E f \in Forms : Settle(f)
    \/ \E f \in Forms : Reopen(f)
    \/ \E f \in Forms : Leave(f)

SpecForm == Init /\ [][NextForm]_vars

----------------------------------------------------------------------------
(* SpecRls: the statements any signed-in account can send to the data layer  *)
(* (PostgREST exposes the tables and the functions of the schema), one at a  *)
(* time. session["s1"] keeps the last statement: who sent it (auth.uid()),   *)
(* how it ended and the identifier it returned.                              *)

\* values and statuses a request can carry
StmtValues == {-1, 1}

StmtStatuses == Statuses \cup {"cancelled", NullStatus}

StmtTimes == {0, MaxTime}

StmtNames == { <<"a", "n">>, <<"b", "i">> }

\* the policies of services, clients, piece_counters: auth.uid() = user_id
OwnRow(auth, row) == auth = row.user_id

Ran(op, auth, ok, clientId, counterId) ==
    [IdleSession EXCEPT !.pc = IF ok THEN "done" ELSE "failed", !.op = op,
                        !.user = auth, !.client_id = clientId,
                        !.counter_id = counterId]

\* rpc get_or_create_client(p_user_id, p_client_name): SECURITY DEFINER, and
\* p_user_id is whatever the request says
RpcGetOrCreateClient(auth, u, n, pos) ==
    /\ FindClient(clients, u, n) = NULL => Len(clients) < MaxClients
    /\ FindClient(clients, u, n) # NULL => pos = 1
    /\ LET r == get_or_create_client(clients, u, n, pos)
       IN  /\ clients' = r.clients
           /\ session' = [session EXCEPT !["s1"] =
                  Ran("get_or_create_client", auth, TRUE, r.id, NULL)]
    /\ UNCHANGED <<services, piece_counters, piece_counter_history, txn, overlapped, ui, hooks>>

\* rpc get_or_create_piece_counter(p_user_id, p_client_id, ..): SECURITY
\* DEFINER; the INSERT fails when p_client_id references no client
RpcGetOrCreatePieceCounter(auth, u, c, pos) ==
    /\ FindCounter(piece_counters, u, c) = NULL => Len(piece_counters) < MaxCounters
    /\ FindCounter(piece_counters, u, c) # NULL => pos = 1
    /\ IF FindCounter(piece_counters, u, c) = NULL /\ c \notin Ids(clients)
       THEN /\ session' = [session EXCEPT !["s1"] =
                   Ran("get_or_create_piece_counter", auth, FALSE, NULL, NULL)]
            /\ UNCHANGED piece_counters
       ELSE LET r == get_or_create_piece_counter(piece_counters, u, c, pos)
            IN  /\ piece_counters' = r.piece_counters
                /\ session' = [session EXCEPT !["s1"] =
                       Ran("get_or_create_piece_counter", auth, TRUE, NULL, r.id)]
    /\ UNCHANGED <<clients, services, piece_counter_history, txn, overlapped, ui, hooks>>

\* INSERT INTO services (user_id, client_id, value, status, ..): WITH CHECK
\* (auth.uid() = user_id), the column constraints, then the trigger
StmtInsertService(auth, u, c, v, st, ts) ==
    /\ Cardinality(services) < MaxServices
    /\ LET row  == NewService(FreshId(ServiceIds), u, c, v, st, ts)
           svcs == services \cup {row}
       IN  IF /\ OwnRow(auth, row)
              /\ ServiceAccepted(clients, c, v, st)
              /\ DecimalFits(PaidSum(svcs, StatsTarget(row.client_id, NULL)))
           THEN /\ services' = svcs
                /\ clients' = update_client_stats(clients, svcs, row.client_id, NULL)
                /\ session' = [session EXCEPT !["s1"] =
                       Ran("insert_service", auth, TRUE, NULL, NULL)]
           ELSE /\ session' = [session EXCEPT !["s1"] =
                       Ran("insert_service", auth, FALSE, NULL, NULL)]
                /\ UNCHANGED <<clients, services>>
    /\ UNCHANGED <<piece_counters, piece_counter_history, txn, overlapped, ui, hooks>>

\* UPDATE services SET client_id, value, status WHERE id = ..: USING
\* (auth.uid() = user_id) selects the rows, then constraints and trigger
StmtUpdateService(auth, old, c, v, st) ==
    /\ old \in services
    /\ LET row  == [old EXCEPT !.client_id = c, !.value = v, !.status = st]
           svcs == (services \ {old}) \cup {row}
       IN  IF ~OwnRow(auth, old)
           THEN /\ session' = [session EXCEPT !["s1"] =
                       Ran("update_service", auth, TRUE, NULL, NULL)]
                /\ UNCHANGED <<clients, services>>
           ELSE IF /\ ServiceAccepted(clients, c, v, st)
                   /\ DecimalFits(PaidSum(svcs, StatsTarget(row.client_id,
                                                            old.client_id)))
                THEN /\ services' = svcs
                     /\ clients' = update_client_stats(clients, svcs, row.client_id,
                                                       old.client_id)
                     /\ session' = [session EXCEPT !["s1"] =
                            Ran("update_service", auth, TRUE, NULL, NULL)]
                ELSE /\ session' = [session EXCEPT !["s1"] =
                            Ran("update_service", auth, FALSE, NULL, NULL)]
                     /\ UNCHANGED <<clients, services>>
    /\ UNCHANGED <<piece_counters, piece_counter_history, txn, overlapped, ui, hooks>>

\* DELETE FROM services WHERE id = ..: USING (auth.uid() = user_id)
StmtDeleteService(auth, old) ==
    /\ old \in services
    /\ IF OwnRow(auth, old)
       THEN LET svcs == services \ {old}
            IN  /\ services' = svcs
                /\ clients' = update_client_stats(clients, svcs, NULL, old.client_id)
       ELSE UNCHANGED <<clients, services>>
    /\ session' = [session EXCEPT !["s1"] =
           Ran("delete_service", auth, TRUE, NULL, NULL)]
    /\ UNCHANGED <<piece_counters, piece_counter_history, txn, overlapped, ui, hooks>>

NextRls ==
    \/ \E auth \in Accounts, u \in Accounts, n \in StmtNames, pos \in Slots(clients) :
           RpcGetOrCreateClient(auth, u, n, pos)
    \/ \E auth \in Accounts, u \in Accounts, c \in 1..MaxClients,
          v \in StmtValues, st \in StmtStatuses, ts \in StmtTimes :
           StmtInsertService(auth, u, c, v, st, ts)
    \/ \E auth \in Accounts, old \in services, c \in 1..MaxClients,
          v \in StmtValues, st \in StmtStatuses :
           StmtUpdateService(auth, old, c, v, st)
    \/ \E auth \in Accounts, old \in services : StmtDeleteService(auth, old)

SpecRls == Init /\ [][NextRls]_vars

----------------------------------------------------------------------------
(* SpecLedger: the statements on the piece counters and their history that a *)
(* signed-in account can send, one at a time, each of the two accounts       *)
(* having one client.                                                        *)

InitLedger ==
    /\ clients = << NewClient(1, "u1", <<"a", "n">>), NewClient(2, "u2", <<"b", "i">>) >>
    /\ services = {}
    /\ piece_counters = << >>
    /\ piece_counter_history = {}
    /\ session = [p \in Sessions |-> IdleSession]
    /\ txn = [t \in Conns |-> IdleTxn]
    /\ overlapped = FALSE
    /\ ui = [f \in Forms |-> Closed(f)]
    /\ hooks = InitialHooks

\* a variant with a policy FOR DELETE USING (auth.uid() = user_id)
HistoryPolicyWithDelete(cmd, auth, row) ==
    cmd \in {"SELECT", "INSERT", "DELETE"} /\ auth = row.user_id

\* the policies of piece_counter_history: one FOR SELECT and one FOR INSERT,
\* both on auth.uid() = user_id; a command without a policy sees no row
HistoryPolicy(cmd, auth, row) ==
    cmd \in {"SELECT", "INSERT"} /\ auth = row.user_id

\* INSERT INTO piece_counter_history (user_id, counter_id, pieces_added, ..):
\* WITH CHECK, the column constraints, then the trigger
StmtInsertHistory(auth, u, k, d) ==
    /\ Cardinality(piece_counter_history) < MaxHistory
    /\ LET row == NewHistory(FreshId(HistoryIds), u, k, d)
       IN  IF /\ HistoryPolicy("INSERT", auth, row)
              /\ HistoryAccepted(piece_counters, k, d)
              /\ IntFits(AddPieces(RowOf(piece_counters, k).total_pieces, d))
           THEN /\ piece_counter_history' = piece_counter_history \cup {row}
                /\ piece_counters' = update_piece_counter_total(piece_counters, k, d)
                /\ session' = [session EXCEPT !["s1"] =
                       Ran("insert_history", auth, TRUE, NULL, k)]
           ELSE /\ session' = [session EXCEPT !["s1"] =
                       Ran("insert_history", auth, FALSE, NULL, NULL)]
                /\ UNCHANGED <<piece_counters, piece_counter_history>>
    /\ UNCHANGED <<clients, services, txn, overlapped, ui, hooks>>

\* UPDATE piece_counter_history SET pieces_added = d WHERE id = ..: on the
\* rows the policies show to an UPDATE; the table has no UPDATE trigger
StmtUpdateHistory(auth, h, d) ==
    /\ h \in piece_counter_history
    /\ piece_counter_history' =
           IF HistoryPolicy("UPDATE", auth, h)
           THEN (piece_counter_history \ {h}) \cup {[h EXCEPT !.pieces_added = d]}
           ELSE piece_counter_history
    /\ session' = [session EXCEPT !["s1"] =
           Ran("update_history", auth, TRUE, NULL, h.counter_id)]
    /\ UNCHANGED <<clients, services, piece_counters, txn, overlapped, ui, hooks>>

\* DELETE FROM piece_counter_history WHERE id = ..: on the rows the policies
\* show to a DELETE
StmtDeleteHistory(auth, h) ==
    /\ h \in piece_counter_history
    /\ piece_counter_history' =
           IF HistoryPolicy("DELETE", auth, h)
           THEN piece_counter_history \ {h}
           ELSE piece_counter_history
    /\ session' = [session EXCEPT !["s1"] =
           Ran("delete_history", auth, TRUE, NULL, h.counter_id)]
    /\ UNCHANGED <<clients, services, piece_counters, txn, overlapped, ui, hooks>>

NextLedger ==
    \/ \E auth \in Accounts, u \in Accounts, c \in 1..MaxClients,
          pos \in Slots(piece_counters) :
           RpcGetOrCreatePieceCounter(auth, u, c, pos)
    \/ \E auth \in Accounts, u \in Accounts, k \in 1..MaxCounters, d \in Deltas :
           StmtInsertHistory(auth, u, k, d)
    \/ \E auth \in Accounts, h \in piece_counter_history, d \in Deltas :
           StmtUpdateHistory(auth, h, d)
    \/ \E auth \in Accounts, h \in piece_counter_history :
           StmtDeleteHistory(auth, h)

SpecLedger == InitLedger /\ [][NextLedger]_vars

----------------------------------------------------------------------------
(* SpecTx: two connections run single-statement transactions on the services *)
(* of one client and on the history of its counter under READ COMMITTED, the *)
(* isolation level of the database. A transaction writes its detail row; the *)
(* row trigger then runs its UPDATE of the parent row, which waits for the   *)
(* row lock of another open transaction; COMMIT publishes both writes.       *)

\* the database after addPiecesToCounter has resolved a client and its counter
InitTx ==
    /\ clients = << NewClient(1, "u1", <<"a", "n">>) >>
    /\ services = {}
    /\ piece_counters = << NewCounter(1, "u1", 1) >>
    /\ piece_counter_history = {}
    /\ session = [p \in Sessions |-> IdleSession]
    /\ txn = [t \in Conns |-> IdleTxn]
    /\ overlapped = FALSE
    /\ ui = [f \in Forms |-> Closed(f)]
    /\ hooks = InitialHooks

TxStatuses == {"progress", "paid"}

Open(t) == txn[t].pc # "idle"

RECURSIVE TxnsOf(_)
TxnsOf(S) ==
    IF S = {} THEN 0
    ELSE LET t == CHOOSE x \in S : TRUE
         IN  txn[t].n + TxnsOf(S \ {t})

\* identifiers taken by rows that open transactions have inserted
PendingIds(kind) ==
    { txn[t].new.id : t \in { x \in Conns : Open(x) /\ txn[x].kind = kind
                                             /\ txn[x].op = "INSERT" } }

\* the services a statement of t sees: the committed rows and t's own write
VisibleServices(svcs, op, old, new) ==
    CASE op = "INSERT" -> svcs \cup {new}
      [] op = "UPDATE" -> (svcs \ {old}) \cup {new}
      [] op = "DELETE" -> svcs \ {old}

\* a variant that keeps the value of the statement's snapshot
LockedRowValueStale(snapshotValue, latestValue) == snapshotValue

\* the row an UPDATE takes as its input once it holds the row lock: under
\* READ COMMITTED the latest committed version, not the one of its snapshot
LockedRowValue(snapshotValue, latestValue) == latestValue

\* INSERT / UPDATE / DELETE on services, and the sub-selects of
\* update_client_stats() evaluated under the snapshot of the trigger's UPDATE
TxService(t, op, old, new) ==
    /\ ~Open(t)
    /\ TxnsOf(Conns) < MaxTxns
    /\ LET seen   == VisibleServices(services, op, old, new)
           target == StatsTarget(new.client_id, old.client_id)
       IN  /\ DecimalFits(PaidSum(seen, target))
           /\ txn' = [txn EXCEPT ![t] =
                  [pc |-> "written", kind |-> "service", op |-> op, new |-> new,
                   old |-> old, seen |-> 0, total |-> PaidSum(seen, target),
                   last |-> LastDate(seen, target), n |-> txn[t].n + 1]]
    /\ overlapped' = (overlapped \/ \E o \in Conns \ {t} : Open(o))
    /\ UNCHANGED <<dbVars, session, ui, hooks>>

TxInsertService(t, c, v, st, ts) ==
    /\ ServiceAccepted(clients, c, v, st)
    /\ TxService(t, "INSERT", NoRow,
           NewService(FreshId(ServiceIds \cup PendingIds("service")),
                      RowOf(clients, c).user_id, c, v, st, ts))

\* the row lock of old: no other open transaction has written that row
ServiceRowFree(t, old) ==
    \A o \in Conns \ {t} : ~(Open(o) /\ txn[o].kind = "service" /\ txn[o].old = old)

TxUpdateService(t, old, c, v, st, ts) ==
    /\ old \in services
    /\ ServiceRowFree(t, old)
    /\ ServiceAccepted(clients, c, v, st)
    /\ TxService(t, "UPDATE", old,
           [old EXCEPT !.client_id = c, !.value = v, !.status = st, !.created_at = ts])

TxDeleteService(t, old) ==
    /\ old \in services
    /\ ServiceRowFree(t, old)
    /\ TxService(t, "DELETE", old, NoRow)

\* INSERT INTO piece_counter_history; the trigger's UPDATE starts and reads
\* the counter row of its snapshot
TxInsertHistory(t, k, d) ==
    /\ ~Open(t)
    /\ TxnsOf(Conns) < MaxTxns
    /\ HistoryAccepted(piece_counters, k, d)
    /\ txn' = [txn EXCEPT ![t] =
           [pc |-> "written", kind |-> "history", op |-> "INSERT",
            new |-> NewHistory(FreshId(HistoryIds \cup PendingIds("history")),
                               RowOf(piece_counters, k).user_id, k, d),
            old |-> NoRow, seen |-> RowOf(piece_counters, k).total_pieces,
            total |-> 0, last |-> NULL, n |-> txn[t].n + 1]]
    /\ overlapped' = (overlapped \/ \E o \in Conns \ {t} : Open(o))
    /\ UNCHANGED <<dbVars, session, ui, hooks>>

\* the parent row the trigger of t updates
ParentOf(x) ==
    IF x.kind = "history" THEN <<"piece_counters", x.new.counter_id>>
    ELSE <<"clients", StatsTarget(x.new.client_id, x.old.client_id)>>

\* the trigger's UPDATE gets the lock of the parent row and writes it:
\* total_pieces + NEW.pieces_added from the locked row, total_spent and
\* last_service_date from the sub-selects already evaluated
TxTriggerUpdate(t) ==
    /\ txn[t].pc = "written"
    /\ \A o \in Conns \ {t} : ~(txn[o].pc = "locked" /\ ParentOf(txn[o]) = ParentOf(txn[t]))
    /\ LET x == txn[t]
       IN  txn' = [txn EXCEPT ![t] =
               IF x.kind = "history"
               THEN [x EXCEPT !.pc = "locked",
                              !.total = AddPieces(
                                  LockedRowValue(x.seen,
                                      RowOf(piece_counters, x.new.counter_id).total_pieces),
                                  x.new.pieces_added)]
               ELSE [x EXCEPT !.pc = "locked"]]
    /\ IntFits(txn'[t].total)
    /\ UNCHANGED <<dbVars, session, overlapped, ui, hooks>>

\* COMMIT: the detail row and the parent row become visible, the locks go
TxCommit(t) ==
    /\ txn[t].pc = "locked"
    /\ LET x == txn[t]
       IN  IF x.kind = "history"
           THEN /\ piece_counter_history' = piece_counter_history \cup {x.new}
                /\ piece_counters' =
                       ReplaceRow(piece_counters, x.new.counter_id,
                           [RowOf(piece_counters, x.new.counter_id)
                               EXCEPT !.total_pieces = x.total])
                /\ UNCHANGED <<clients, services>>
           ELSE /\ services' = VisibleServices(services, x.op, x.old, x.new)
                /\ clients' = WriteClientStats(clients, ParentOf(x)[2], x.total, x.last)
                /\ UNCHANGED <<piece_counters, piece_counter_history>>
    /\ txn' = [txn EXCEPT ![t] = [IdleTxn EXCEPT !.n = txn[t].n]]
    /\ UNCHANGED <<session, overlapped, ui, hooks>>

NextTx ==
    \/ \E t \in Conns, c \in Ids(clients), v \in Values, st \in TxStatuses, ts \in Times :
           TxInsertService(t, c, v, st, ts)
    \/ \E t \in Conns, old \in services, c \in Ids(clients), v \in Values,
          st \in TxStatuses, ts \in Times :
           TxUpdateService(t, old, c, v, st, ts)
    \/ \E t \in Conns, old \in services : TxDeleteService(t, old)
    \/ \E t \in Conns, k \in Ids(piece_counters), d \in Deltas : TxInsertHistory(t, k, d)
    \/ \E t \in Conns : TxTriggerUpdate(t)
    \/ \E t \in Conns : TxCommit(t)

SpecTx == InitTx /\ [][NextTx]_vars

\* the transaction ends without COMMIT: the trigger's UPDATE raised an error,
\* the connection broke or the server crashed; nothing it wrote is applied
TxRollback(t) ==
    /\ Open(t)
    /\ txn' = [txn EXCEPT ![t] = [IdleTxn EXCEPT !.n = txn[t].n, !.op = "ROLLBACK"]]
    /\ UNCHANGED <<dbVars, session, overlapped, ui, hooks>>

\* SpecAtomic: SpecTx with transactions that fail
NextAtomic ==
    \/ NextTx
    \/ \E t \in Conns : TxRollback(t)

SpecAtomic == InitTx /\ [][NextAtomic]_vars

----------------------------------------------------------------------------
(* The frequent-client lists of ClientChips and QuickActions *)

MaxList == 5
Spents  == 0..2

\* the comparator with the amounts in ascending order
compareAscending(a, b) ==
    IF a.is_favorite /\ ~b.is_favorite THEN -1
    ELSE IF ~a.is_favorite /\ b.is_favorite THEN 1
    ELSE a.total_spent - b.total_spent

\* the comparator handed to sort: negative when a goes before b
compare(a, b) ==
    IF a.is_favorite /\ ~b.is_favorite THEN -1
    ELSE IF ~a.is_favorite /\ b.is_favorite THEN 1
    ELSE b.total_spent - a.total_spent

\* x put into the sorted s, behind every element that does not go after it
RECURSIVE SortInsert(_, _)
SortInsert(x, s) ==
    IF s = << >> THEN <<x>>
    ELSE IF compare(x, Head(s)) < 0 THEN <<x>> \o s
    ELSE <<Head(s)>> \o SortInsert(x, Tail(s))

\* Array.prototype.sort with the comparator (a stable sort)
RECURSIVE sort(_)
sort(s) ==
    IF s = << >> THEN << >>
    ELSE SortInsert(s[Len(s)], sort(SubSeq(s, 1, Len(s) - 1)))

\* Array.prototype.slice(0, n)
slice(s, n) == SubSeq(s, 1, IF Len(s) < n THEN Len(s) ELSE n)

\* the client lists a hook can hand to the components
ClientLists ==
    UNION { [1..n -> BOOLEAN \X Spents] : n \in 0..MaxList }

InitSort ==
    /\ \E l \in ClientLists :
         clients = [i \in 1..Len(l) |->
                      [NewClient(i, "u1", <<"a", "n">>) EXCEPT
                          !.is_favorite = l[i][1], !.total_spent = l[i][2]]]
    /\ services = {}
    /\ piece_counters = << >>
    /\ piece_counter_history = {}
    /\ session = [s \in Sessions |-> IdleSession]
    /\ txn = [t \in Conns |-> IdleTxn]
    /\ overlapped = FALSE
    /\ ui = [f \in Forms |-> Closed(f)]
    /\ hooks = InitialHooks

\* ClientChips renders: sort orders the array in place, slice copies the top 4
frequentClients ==
    /\ clients' = sort(clients)
    /\ hooks' = [hooks EXCEPT !.chips = slice(clients', 4)]
    /\ UNCHANGED <<services, piece_counters, piece_counter_history,
                   session, txn, overlapped, ui>>

\* QuickActions renders: the same with the top 2
topClients ==
    /\ clients' = sort(clients)
    /\ hooks' = [hooks EXCEPT !.quick = slice(clients', 2)]
    /\ UNCHANGED <<services, piece_counters, piece_counter_history,
                   session, txn, overlapped, ui>>

NextSort == frequentClients \/ topClients

SpecSort == InitSort /\ [][NextSort]_vars

----------------------------------------------------------------------------
(* App, useSupabase and the data hooks *)

\* the values of the argument counterId: 0 for undefined, else a counter id
CounterIds == 0..MaxCounters

\* App with the user tested before loading
RenderUserFirst(user, loading) ==
    IF user # NoUser THEN "routes"
    ELSE IF loading THEN "loading"
    ELSE "auth"

\* what App returns
Render(user, loading) ==
    IF loading THEN "loading"
    ELSE IF user = NoUser THEN "auth"
    ELSE "routes"

\* a data hook on its first render: its effect has called the fetch
Mounted == [Unmounted EXCEPT !.mounted = TRUE, !.pending = {0}]

\* App has rendered again from the user and loading of h: components that
\* appear mount their hooks, components that disappear lose their state
Rendered(h) ==
    LET scr == Render(h.user, h.loading)
    IN  [h EXCEPT
           !.screen = scr,
           !.data = IF scr # "routes" THEN [d \in DataHooks |-> Unmounted]
                    ELSE IF h.screen = "routes" THEN h.data
                    ELSE [d \in DataHooks |-> Mounted]]

\* getSession() resolves with the session the auth client holds
GetSessionResolves ==
    /\ hooks.getSession = "pending"
    /\ hooks' = Rendered([hooks EXCEPT !.getSession = "resolved",
                                        !.user = hooks.session,
                                        !.loading = FALSE])
    /\ UNCHANGED <<dbVars, session, txn, overlapped, ui>>

\* getSession() rejects: the promise has no rejection handler
GetSessionRejects ==
    /\ hooks.getSession = "pending"
    /\ hooks' = [hooks EXCEPT !.getSession = "rejected"]
    /\ UNCHANGED <<dbVars, session, txn, overlapped, ui>>

\* the auth client signs u in (or out, NoUser) and calls the subscriber
AuthStateChange(u) ==
    /\ hooks' = Rendered([hooks EXCEPT !.session = u, !.user = u])
    /\ UNCHANGED <<dbVars, session, txn, overlapped, ui>>

\* the fetch of h for query q returns rows
FetchSucceeds(h, q) ==
    /\ hooks.data[h].mounted
    /\ q \in hooks.data[h].pending
    /\ hooks' = [hooks EXCEPT !.data[h].pending = @ \ {q},
                               !.data[h].list = q,
                               !.data[h].loading = FALSE]
    /\ UNCHANGED <<dbVars, session, txn, overlapped, ui>>

\* the fetch of h for query q returns an error or throws
FetchFails(h, q) ==
    /\ hooks.data[h].mounted
    /\ q \in hooks.data[h].pending
    /\ hooks' = [hooks EXCEPT !.data[h].pending = @ \ {q},
                               !.data[h].errored = TRUE,
                               !.data[h].loading = FALSE]
    /\ UNCHANGED <<dbVars, session, txn, overlapped, ui>>

\* the component renders usePieceCounterHistory with another counterId: the
\* effect runs again and starts a fetch for it
SetCounterId(k) ==
    /\ hooks.data["usePieceCounterHistory"].mounted
    /\ k # hooks.data["usePieceCounterHistory"].counterId
    /\ hooks' = [hooks EXCEPT
                    !.data["usePieceCounterHistory"].counterId = k,
                    !.data["usePieceCounterHistory"].pending = @ \cup {k}]
    /\ UNCHANGED <<dbVars, session, txn, overlapped, ui>>

GetSessionSettles == GetSessionResolves \/ GetSessionRejects

FetchSettles(h) ==
    \E q \in CounterIds : FetchSucceeds(h, q) \/ FetchFails(h, q)

NextHooks ==
    \/ GetSessionResolves
    \/ GetSessionRejects
    \/ \E u \in Accounts \cup {NoUser} : AuthStateChange(u)
    \/ \E h \in DataHooks, q \in CounterIds : FetchSucceeds(h, q)
    \/ \E h \in DataHooks, q \in CounterIds : FetchFails(h, q)
    \/ \E k \in CounterIds : SetCounterId(k)

SpecHooks == Init /\ [][NextHooks]_vars

\* every request that was sent settles
SpecHooksLive ==
    /\ SpecHooks
    /\ WF_vars(GetSessionSettles)
    /\ \A h \in DataHooks : WF_vars(FetchSettles(h))

----------------------------------------------------------------------------
(* Properties of the ledgers under sequential statements *)

CounterHistory(k) == { h \in piece_counter_history : h.counter_id = k }

\* C1: every client's stored total_spent equals the sum of value over its
\* current services with status 'paid' (0 when it has none), after any sequence
\* of service inserts, updates and deletes.
C1_TotalSpentIsPaidSum ==
    \A i \in 1..Len(clients) :
        clients[i].total_spent = PaidSum(services, clients[i].id)

\* C2: every client's stored last_service_date equals the maximum creation date
\* over all its current services, whatever their status, and is NULL when it has
\* no service.
C2_LastServiceDateIsMax ==
    \A i \in 1..Len(clients) :
        clients[i].last_service_date = LastDate(services, clients[i].id)

\* C3: every counter's total_pieces equals the sum of the deltas of its history
\* rows, and an insertion is accepted whether or not it drives the total below
\* zero (the total may be negative).
C3_TotalPiecesIsDeltaSum ==
    /\ \A i \in 1..Len(piece_counters) :
           piece_counters[i].total_pieces =
               SumPieces(CounterHistory(piece_counters[i].id))
    /\ Cardinality(piece_counter_history) < MaxHistory =>
           \A u \in Accounts, k \in Ids(piece_counters), d \in Deltas :
               ENABLED InsertHistory(u, k, d)

\* a counter whose removals exceeded its additions, next to a second counter
C3_Witness ==
    \E i \in 1..Len(piece_counters) :
        /\ Cardinality(CounterHistory(piece_counters[i].id)) >= 2
        /\ piece_counters[i].total_pieces < 0
        /\ Len(piece_counters) >= 2

----------------------------------------------------------------------------
(* Properties of find-or-create and of the client-side write path *)

\* the sessions whose get_or_create_client has returned
ClientResolved(p) ==
    session[p].pc \in {"insert_service", "rpc_counter", "rpc_counter_insert",
                       "insert_history", "done"}

\* C4: from any reachable state, two get_or_create_client(A, N) calls run one
\* after the other return the same identifier and the second inserts no row.
C4_GetOrCreateClientIdempotent ==
    \A u \in Accounts, n \in Names, pos1 \in Slots(clients) :
        LET r1 == get_or_create_client(clients, u, n, pos1)
            r2 == get_or_create_client(r1.clients, u, n, 1)
        IN  r2.id = r1.id /\ r2.clients = r1.clients

\* a second call came back with the row the first call had inserted
C4_Witness ==
    \E p, q \in Sessions :
        /\ p # q
        /\ ClientResolved(p) /\ ClientResolved(q)
        /\ session[p].user = session[q].user
        /\ session[p].name = session[q].name
        /\ session[p].client_id = session[q].client_id
        /\ <<"clients", session[q].client_id>> \in session[q].made
        /\ session[p].made = {}

\* C5: names that differ only in letter case resolve to the same client of the
\* same account: get_or_create_client(A, N1) followed by get_or_create_client(A, N2)
\* returns the same identifier, and the client returned for A is never a row
\* of another account.
C5_CaseInsensitiveWithinAccount ==
    \A u \in Accounts, n1 \in Names, pos1 \in Slots(clients) :
        LET r1 == get_or_create_client(clients, u, n1, pos1)
        IN  /\ RowOf(r1.clients, r1.id).user_id = u
            /\ \A n2 \in { n \in Names : Lower(n) = Lower(n1) } :
                   get_or_create_client(r1.clients, u, n2, 1).id = r1.id

\* a call was answered with the client another call had stored under another
\* spelling of the name
C5_Witness ==
    \E p, q \in Sessions :
        /\ ClientResolved(p)
        /\ session[p].made = {}
        /\ <<"clients", session[p].client_id>> \in session[q].made
        /\ RowOf(clients, session[p].client_id).name # session[p].name
        /\ RowOf(clients, session[p].client_id).user_id = session[p].user

\* C6: no two Client rows of the same account have names that are equal
\* case-insensitively, whatever the interleaving of get_or_create_client calls.
C6_NoDuplicateClients ==
    \A i, j \in 1..Len(clients) :
        (i # j /\ clients[i].user_id = clients[j].user_id)
            => Lower(clients[i].name) # Lower(clients[j].name)

\* C7: there is at most one PieceCounter row per (account, client) pair,
\* whatever the interleaving of get_or_create_piece_counter calls.
C7_OneCounterPerClient ==
    \A i, j \in 1..Len(piece_counters) :
        (i # j /\ piece_counters[i].user_id = piece_counters[j].user_id)
            => piece_counters[i].client_id # piece_counters[j].client_id

\* the rows of a table, by the table's name
TableIds(tbl) ==
    CASE tbl = "clients"               -> Ids(clients)
      [] tbl = "piece_counters"        -> Ids(piece_counters)
      [] tbl = "services"              -> ServiceIds
      [] tbl = "piece_counter_history" -> HistoryIds

\* C10: createService and addPiecesToCounter never apply partially: when a call
\* has failed, the database holds no row created by an earlier step of that call.
C10_FailedCallLeavesNoRow ==
    \A p \in Sessions :
        session[p].pc = "failed" =>
            \A m \in session[p].made : m[2] \notin TableIds(m[1])

----------------------------------------------------------------------------
(* Properties of concurrent transactions *)

Quiescent == \A t \in Conns : ~Open(t)

\* C8: concurrent history inserts for one counter lose no increment: once all
\* of them have committed, total_pieces is the previous total plus the sum of
\* all inserted deltas (the sum of the counter's history, starting from 0).
C8_NoLostIncrement ==
    Quiescent =>
        \A i \in 1..Len(piece_counters) :
            piece_counters[i].total_pieces =
                SumPieces(CounterHistory(piece_counters[i].id))

\* two history inserts of one counter overlapped and both have committed
C8_Witness ==
    /\ Quiescent
    /\ overlapped
    /\ \E i \in 1..Len(piece_counters) :
           Cardinality(CounterHistory(piece_counters[i].id)) >= 2

\* C9: once concurrent service transactions of one client have all committed,
\* the client's total_spent is the sum of value over its committed paid services
\* and last_service_date the maximum creation date over its committed services.
C9_StatsAfterConcurrentCommits ==
    Quiescent =>
        \A i \in 1..Len(clients) :
            /\ clients[i].total_spent = PaidSum(services, clients[i].id)
            /\ clients[i].last_service_date = LastDate(services, clients[i].id)

----------------------------------------------------------------------------
(* The three mutating operations without a signed-in user, and the frame of  *)
(* the client-side writes (SpecFav)                                          *)

\* C11: a mutating operation invoked while no user is authenticated ends in
\* an error to its caller and has created no row: a call made without a user
\* is never running a request and never done, it has failed
C11_UnauthenticatedCallIsRejected ==
    \A p \in Sessions :
        (session[p].pc # "idle" /\ session[p].user = NoUser) =>
            (session[p].pc = "failed" /\ session[p].made = {})

\* a step of session p that is a call of updateClientFavorite
FavoriteStep(p) ==
    /\ session[p].pc = "idle"
    /\ session'[p].pc # "idle"
    /\ session'[p].op = "updateClientFavorite"

\* C15: no client-side operation writes a derived field. A step of
\* updateClientFavorite changes at most is_favorite of the client it names and
\* nothing else; in every step total_spent and last_service_date of a client
\* change only to what the trigger computes from a changed services table, a
\* client and a counter start from the column defaults, and total_pieces
\* changes only by the delta of a history row inserted in that step
C15_DerivedFieldsNotWrittenDirectly ==
    [][ /\ \A p \in Sessions :
              FavoriteStep(p) =>
                  /\ UNCHANGED <<services, piece_counters, piece_counter_history>>
                  /\ Ids(clients') = Ids(clients)
                  /\ \A c \in Ids(clients) :
                         \/ RowOf(clients', c) = RowOf(clients, c)
                         \/ /\ c = session'[p].client_id
                            /\ RowOf(clients', c) =
                                   [RowOf(clients, c) EXCEPT !.is_favorite =
                                        RowOf(clients', c).is_favorite]
        /\ \A c \in Ids(clients') :
              IF c \in Ids(clients)
              THEN \/ /\ RowOf(clients', c).total_spent = RowOf(clients, c).total_spent
                      /\ RowOf(clients', c).last_service_date =
                             RowOf(clients, c).last_service_date
                   \/ /\ services' # services
                      /\ RowOf(clients', c).total_spent = PaidSum(services', c)
                      /\ RowOf(clients', c).last_service_date = LastDate(services', c)
              ELSE /\ RowOf(clients', c).total_spent = 0
                   /\ RowOf(clients', c).last_service_date = NULL
        /\ \A k \in Ids(piece_counters') :
              IF k \in Ids(piece_counters)
              THEN \/ RowOf(piece_counters', k).total_pieces =
                          RowOf(piece_counters, k).total_pieces
                   \/ \E h \in piece_counter_history' \ piece_counter_history :
                          /\ h.counter_id = k
                          /\ RowOf(piece_counters', k).total_pieces =
                                 RowOf(piece_counters, k).total_pieces + h.pieces_added
              ELSE RowOf(piece_counters', k).total_pieces = 0
      ]_vars

\* C15 witness: updateClientFavorite has returned after marking as favorite a
\* client whose total_spent a paid service had raised
C15_Witness ==
    \E p \in Sessions :
        /\ session[p].op = "updateClientFavorite"
        /\ session[p].pc = "done"
        /\ session[p].client_id \in Ids(clients)
        /\ RowOf(clients, session[p].client_id).is_favorite
        /\ RowOf(clients, session[p].client_id).total_spent > 0

----------------------------------------------------------------------------
(* Zero states of the aggregates *)

\* C14: a client with zero services has total_spent = 0 and last_service_date
\* null, and a piece counter without history has total_pieces = 0
C14_ZeroServicesZeroStats ==
    /\ \A i \in 1..Len(clients) :
           (\A s \in services : s.client_id # clients[i].id) =>
               /\ clients[i].total_spent = 0
               /\ clients[i].last_service_date = NULL
    /\ \A i \in 1..Len(piece_counters) :
           CounterHistory(piece_counters[i].id) = {} =>
               piece_counters[i].total_pieces = 0

----------------------------------------------------------------------------
(* The data-layer boundary (SpecRls) *)

\* C12: every stored service has a non-negative value
C12_ServiceValueNonNegative == \A s \in services : s.value >= 0

\* C13: every stored service has a status that is exactly one of 'progress',
\* 'delivered', 'paid', never absent and never another value
C13_ServiceStatusIsOneOfThree == \A s \in services : s.status \in Statuses

\* the rows of a table that account u owns
OwnedBy(tbl, u) == { tbl[i] : i \in { j \in 1..Len(tbl) : tbl[j].user_id = u } }

\* C17: accounts are isolated. Whatever statement an account A sends, the rows
\* owned by any other account B are afterwards what they were (none created,
\* none modified), and an identifier returned to A is that of a row A owns
C17_AccountsAreIsolated ==
    [][ LET A == session'["s1"].user
        IN  /\ \A B \in Accounts \ {A} :
                  /\ OwnedBy(clients', B) = OwnedBy(clients, B)
                  /\ OwnedBy(piece_counters', B) = OwnedBy(piece_counters, B)
                  /\ { s \in services' : s.user_id = B } =
                         { s \in services : s.user_id = B }
                  /\ { h \in piece_counter_history' : h.user_id = B } =
                         { h \in piece_counter_history : h.user_id = B }
            /\ session'["s1"].client_id # NULL =>
                  RowOf(clients', session'["s1"].client_id).user_id = A
            /\ session'["s1"].counter_id # NULL =>
                  RowOf(piece_counters', session'["s1"].counter_id).user_id = A
      ]_vars

----------------------------------------------------------------------------
(* References written by createService and addPiecesToCounter (SpecApp) *)

\* C16: no cross-account reference. Every service carries the account of the
\* client it references, every piece counter the account of its client, and
\* every history row the account of its counter
C16_NoCrossAccountReference ==
    /\ \A s \in services :
           /\ s.client_id \in Ids(clients)
           /\ RowOf(clients, s.client_id).user_id = s.user_id
    /\ \A i \in 1..Len(piece_counters) :
           /\ piece_counters[i].client_id \in Ids(clients)
           /\ RowOf(clients, piece_counters[i].client_id).user_id =
                  piece_counters[i].user_id
    /\ \A h \in piece_counter_history :
           /\ h.counter_id \in Ids(piece_counters)
           /\ RowOf(piece_counters, h.counter_id).user_id = h.user_id

\* C16 witness: a service of one account and a history row of another one
\* are stored
C16_Witness ==
    \E s \in services, h \in piece_counter_history : s.user_id # h.user_id

\* the rows of one table that a call has created
MadeIn(p, table) == { m[2] : m \in { x \in session[p].made : x[1] = table } }

\* C19: ordering of the write path. createService is at its services insert
\* only with the identifier get_or_create_client returned, addPiecesToCounter
\* is at get_or_create_piece_counter only with that identifier and at its
\* history insert only with, in addition, the returned counter identifier;
\* the row a call inserted references exactly the returned identifier
C19_WritePathOrder ==
    \A p \in Sessions :
        LET s == session[p]
        IN  /\ s.pc \in {"insert_service", "rpc_counter", "rpc_counter_insert",
                         "insert_history"} =>
                   s.client_id \in Ids(clients)
            /\ s.pc = "insert_history" =>
                   /\ s.counter_id \in Ids(piece_counters)
                   /\ RowOf(piece_counters, s.counter_id).client_id = s.client_id
            /\ \A r \in services :
                   r.id \in MadeIn(p, "services") =>
                       s.client_id # NULL /\ r.client_id = s.client_id
            /\ \A h \in piece_counter_history :
                   h.id \in MadeIn(p, "piece_counter_history") =>
                       /\ s.client_id # NULL
                       /\ s.counter_id # NULL
                       /\ h.counter_id = s.counter_id

\* C19 witness: an addPiecesToCounter call has returned with its history row
\* inserted, and a createService call with its service
C19_Witness ==
    /\ \E p \in Sessions :
           /\ session[p].pc = "done"
           /\ session[p].op = "addPiecesToCounter"
           /\ MadeIn(p, "piece_counter_history") # {}
    /\ \E p \in Sessions :
           /\ session[p].pc = "done"
           /\ session[p].op = "createService"
           /\ MadeIn(p, "services") # {}

----------------------------------------------------------------------------
(* The history ledger (SpecLedger) *)

\* C18: piece_counter_history is append-only: a stored history row is still
\* stored, with the same pieces_added, after every step
C18_HistoryAppendOnly ==
    [][ \A h \in piece_counter_history : h \in piece_counter_history' ]_vars

\* C18 witness: the owner of a history row has sent a DELETE for it, the
\* statement has run, and the row is stored
C18_Witness ==
    /\ session["s1"].op = "delete_history"
    /\ session["s1"].pc = "done"
    /\ \E h \in piece_counter_history :
           /\ h.user_id = session["s1"].user
           /\ h.counter_id = session["s1"].counter_id

----------------------------------------------------------------------------
(* The submitting forms (SpecForm) *)

\* the step in which handleSubmit of form f takes the outcome of its call
Settles(f) ==
    /\ session[SessionOf(f)].pc \in {"done", "failed"}
    /\ session'[SessionOf(f)].pc = "idle"

\* C20: when the call of a form settles, loading is false again; after a
\* failure the form has shown its error message, is still on screen and holds
\* the entered fields, and it has not refetched; after a success ServiceForm
\* is at '/' and CounterScreen has emptied its fields and refetched
C20_FormOutcome ==
    [][ \A f \in Forms :
            Settles(f) =>
                /\ ~ui'[f].loading
                /\ session[SessionOf(f)].pc = "failed" =>
                       /\ ui'[f].alert = "error"
                       /\ ui'[f].route = f
                       /\ ui'[f].client = ui[f].client
                       /\ ui'[f].description = ui[f].description
                       /\ ui'[f].amount = ui[f].amount
                       /\ ui'[f].isAdding = ui[f].isAdding
                       /\ ~ui'[f].refetched
                /\ session[SessionOf(f)].pc = "done" =>
                       /\ ui'[f].alert = "none"
                       /\ f = "ServiceForm" => ui'[f].route = "/"
                       /\ f = "CounterScreen" =>
                              /\ ui'[f].route = f
                              /\ ui'[f].client = << >>
                              /\ ui'[f].amount = Blank
                              /\ ui'[f].refetched
      ]_vars

\* C20 witness: a submit of CounterScreen has failed and left the form on
\* screen with its message and its fields, after a createService call of
\* ServiceForm that stored a service
C20_Witness ==
    /\ services # {}
    /\ ui["CounterScreen"].alert = "error"
    /\ ~ui["CounterScreen"].loading
    /\ ui["CounterScreen"].client # << >>
    /\ ui["CounterScreen"].amount # Blank
    /\ session[SessionOf("CounterScreen")].pc = "idle"
    /\ session[SessionOf("CounterScreen")].calls > 0

----------------------------------------------------------------------------
(* The detail row and its aggregate (SpecAtomic) *)

\* C21: the detail-row write and the trigger's aggregate update are one atomic
\* step. The committed services change only in a step that also publishes the
\* total_spent and last_service_date which the trigger of the same transaction
\* wrote to the owning client; the committed history grows only in a step that
\* also adds the row's delta to total_pieces; and a transaction that ends
\* without COMMIT changes no committed row
C21_DetailAndAggregateAtomic ==
    [][ /\ services' # services =>
              \E t \in Conns :
                  /\ txn[t].pc = "locked" /\ txn[t].kind = "service"
                  /\ txn'[t].pc = "idle"
                  /\ services' = VisibleServices(services, txn[t].op, txn[t].old,
                                                 txn[t].new)
                  /\ RowOf(clients', ParentOf(txn[t])[2]).total_spent = txn[t].total
                  /\ RowOf(clients', ParentOf(txn[t])[2]).last_service_date =
                         txn[t].last
        /\ piece_counter_history' # piece_counter_history =>
              \E t \in Conns :
                  /\ txn[t].pc = "locked" /\ txn[t].kind = "history"
                  /\ txn'[t].pc = "idle"
                  /\ piece_counter_history' = piece_counter_history \cup {txn[t].new}
                  /\ RowOf(piece_counters', txn[t].new.counter_id).total_pieces =
                         RowOf(piece_counters, txn[t].new.counter_id).total_pieces
                             + txn[t].new.pieces_added
        /\ (clients' # clients \/ piece_counters' # piece_counters) =>
              (services' # services \/ piece_counter_history' # piece_counter_history
                 \/ \E t \in Conns : txn[t].pc = "locked" /\ txn'[t].pc = "idle"
                                       /\ txn[t].op # "INSERT")
        /\ \A t \in Conns :
              (Open(t) /\ txn'[t].op = "ROLLBACK") => UNCHANGED dbVars
      ]_vars

\* C21 witness: one transaction has committed a service together with its
\* client's statistics, and another one has been rolled back
C21_Witness ==
    /\ \E t \in Conns : ~Open(t) /\ txn[t].op = "ROLLBACK"
    /\ \E s \in services :
           RowOf(clients, s.client_id).last_service_date = ToDate(s.created_at)

----------------------------------------------------------------------------
(* Updates of a service (SpecMove) *)

\* the aggregates of client c as stored in table cl
StatsOf(cl, c) == <<RowOf(cl, c).total_spent, RowOf(cl, c).last_service_date>>

\* C22: an update of a service that changes neither its value, its status,
\* its client nor its creation date leaves total_spent and last_service_date
\* of every client unchanged
C22_NoOpUpdateKeepsStats ==
    [][ services' = services =>
            \A c \in Ids(clients) \cap Ids(clients') :
                StatsOf(clients', c) = StatsOf(clients, c) ]_vars

\* C23: after an update that moves a service from client X to another client
\* Y, both X and Y equal a full recomputation from their current services
C23_MoveRecomputesBothClients ==
    [][ \A old \in services, new \in services' :
            (old.id = new.id /\ old.client_id # new.client_id) =>
                \A c \in {old.client_id, new.client_id} :
                    StatsOf(clients', c) = <<PaidSum(services', c), LastDate(services', c)>>
      ]_vars

----------------------------------------------------------------------------
(* The frequent-client lists *)

\* a goes before b in the ranking: favorites first, then the larger total_spent
RanksBefore(a, b) ==
    \/ a.is_favorite /\ ~b.is_favorite
    \/ a.is_favorite = b.is_favorite /\ a.total_spent > b.total_spent

\* shown is the top n of the list: at most n clients of the list, each once,
\* every favorite before every non-favorite, total_spent not increasing within
\* each class, and no client left out goes before a client shown
TopOf(shown, n) ==
    /\ Len(shown) = (IF Len(clients) < n THEN Len(clients) ELSE n)
    /\ \A i \in 1..Len(shown) : \E j \in 1..Len(clients) : clients[j] = shown[i]
    /\ \A i, j \in 1..Len(shown) : i # j => shown[i].id # shown[j].id
    /\ \A i, j \in 1..Len(shown) : i < j => ~RanksBefore(shown[j], shown[i])
    /\ \A j \in 1..Len(clients) :
         (\A i \in 1..Len(shown) : shown[i] # clients[j]) =>
             \A i \in 1..Len(shown) : ~RanksBefore(clients[j], shown[i])

\* C29: the list ClientChips shows has at most 4 and the list QuickActions
\* shows at most 2 of the hook's clients, favorites before non-favorites,
\* total_spent not increasing within each class, and no client left out ranks
\* before a client shown.
C29_FrequentClientsAreTheTop ==
    /\ hooks.chips # << >> => TopOf(hooks.chips, 4)
    /\ hooks.quick # << >> => TopOf(hooks.quick, 2)

\* both lists rendered from five clients of both classes: clients are left out,
\* and a favorite that spent less is shown before a non-favorite that spent more
C29_Witness ==
    /\ Len(clients) = MaxList
    /\ Len(hooks.chips) = 4
    /\ Len(hooks.quick) = 2
    /\ \E i, j \in 1..4 :
         /\ i < j
         /\ hooks.chips[i].is_favorite /\ ~hooks.chips[j].is_favorite
         /\ hooks.chips[i].total_spent < hooks.chips[j].total_spent
    /\ hooks.quick[1].total_spent > hooks.quick[2].total_spent

----------------------------------------------------------------------------
(* App, useSupabase and the data hooks *)

\* C24: the routes are rendered only when loading is false and a user is
\* present; while loading is true only the loading view is shown; when loading
\* is false and there is no user only AuthScreen is shown, in every order of
\* the getSession result and the auth-state-change events.
C24_RoutesOnlyForUserAfterLoading ==
    /\ hooks.screen = "routes" => ~hooks.loading /\ hooks.user # NoUser
    /\ hooks.loading => hooks.screen = "loading"
    /\ ~hooks.loading /\ hooks.user = NoUser => hooks.screen = "auth"
    /\ hooks.screen # "routes" => \A h \in DataHooks : ~hooks.data[h].mounted

\* an auth-state-change event set the user while getSession was pending and
\* the loading view stayed
C24_Witness ==
    /\ hooks.getSession = "pending"
    /\ hooks.user # NoUser
    /\ hooks.screen = "loading"

\* the loading flag of every data hook falls once its component is mounted
DataHooksStopLoading ==
    \A h \in DataHooks :
        [](hooks.data[h].mounted /\ hooks.data[h].loading =>
               <>(~hooks.data[h].mounted \/ ~hooks.data[h].loading))

\* C25: every loading flag eventually becomes false: that of useSupabase once
\* the initial session request settles, whether it succeeds or fails and
\* whatever auth-state-change events arrive, and that of each data hook after
\* its first fetch settles, on success or on error.
C25_LoadingEventuallyFalse ==
    /\ <>(~hooks.loading)
    /\ DataHooksStopLoading

----------------------------------------------------------------------------
(* handleSubmit of the two forms (SpecForm) *)

====
